---------------------------- MODULE Spec2Model ----------------------------
(***************************************************************************)
(* A model of multi-material-single-nozzle (src/src/main.rs): the config   *)
(* scanner SlicerConfig::read, the two line rewriters replace_toolchanges  *)
(* (mode A) and replace_unloads (mode B), and main's open / scan / seek /  *)
(* tempfile / rewrite / rename pipeline.                                   *)
(*                                                                         *)
(* Text is a sequence of chunks.  A chunk is an indivisible piece of text: *)
(* one of the literal strings the program compares against, a line         *)
(* terminator byte (CR, LF), or some other text.  A line "starts with" a   *)
(* literal when its first chunk is that literal.                           *)
(***************************************************************************)
EXTENDS Integers, Sequences, FiniteSets, TLC

VARIABLES
    input,              \* the bytes the reader was opened on (never changes)
    reader,             \* the bytes the reader has not yet returned
    writer,             \* the bytes written to the writer so far
    emitted,            \* per line consumed by a rewriter: the bytes it wrote
    skip_block,         \* the rewriters' local skip_block
    toolchanges,        \* replace_unloads' local toolchanges
    total_toolchanges,  \* replace_unloads' parameter
    config,             \* the SlicerConfig being read, then handed to main
    args,               \* the command line after the program's name
    fs,                 \* the file system: path |-> content, or NoFile
    buf,                \* the BufWriter's bytes not yet in the temporary file
    stdout,             \* what main has printed
    result,             \* main's result: "running", "Ok" or "Err"
    pc                  \* where the program is

vars == <<input, reader, writer, emitted, skip_block, toolchanges,
          total_toolchanges, config, args, fs, buf, stdout, result, pc>>

(* What a function run on its own leaves alone. *)
mainVars == <<args, fs, buf, stdout, result>>

---------------------------------------------------------------------------
(* Bounds of the model. *)

MaxLines == 5
MaxTermLines == 2
MaxToolchanges == 2
MaxConfigLines == 3
MaxFileLines == 3

---------------------------------------------------------------------------
(* The literals of the source, and the other chunks of text. *)

TOOLCHANGE_UNLOAD == "; CP TOOLCHANGE UNLOAD"
TOOLCHANGE_WIPE == "; CP TOOLCHANGE WIPE"
TOOLCHANGE_START == "; CP TOOLCHANGE START"
TOOLCHANGE_END == "; CP TOOLCHANGE END"
M600 == "M600"
LF == "LF"
CR == "CR"
G1 == "G1 X10"
TOTAL_TOOLCHANGES_PREFIX == "; total toolchanges = "
WIPE_TOWER_PREFIX == "; wipe_tower = "
ABC == "abc"
PLUS == "+"
MINUS == "-"
(* Ten digits in one chunk: more than a u32 holds. *)
TEN_NINES == "9999999999"
(* u32::MAX is 4294967295 = 10 * U32_MAX_DIV_10 + U32_MAX_MOD_10. *)
U32_MAX_DIV_10 == 429496729
U32_MAX_MOD_10 == 5

input_path == "print.gcode"
temp_path == "/tmp/gcode_ts"

(* A path of the file system holds a file with its bytes, or none. *)
File(bytes) == [exists |-> TRUE, bytes |-> bytes]
NoFile == [exists |-> FALSE, bytes |-> <<>>]

---------------------------------------------------------------------------
(* Sequences. *)

RECURSIVE Concat(_)
Concat(ss) == IF ss = <<>> THEN <<>> ELSE Head(ss) \o Concat(Tail(ss))

SeqsUpTo(S, n) == UNION {[1..k -> S] : k \in 0..n}

CountIf(s, P(_)) == Cardinality({i \in DOMAIN s : P(s[i])})

starts_with(line, prefix) == Len(line) >= 1 /\ line[1] = prefix

---------------------------------------------------------------------------
(* BufRead::lines(): each item is the text up to and including the next LF *)
(* (or up to the end of the bytes); a trailing LF is removed and then, only *)
(* if an LF was removed, one trailing CR.                                   *)

RECURSIVE FirstLF(_, _)
FirstLF(bytes, i) ==
    IF i > Len(bytes) THEN 0
    ELSE IF bytes[i] = LF THEN i
    ELSE FirstLF(bytes, i + 1)

(* read_line that removes the LF and keeps a CR before it. *)
read_line_keep_cr(bytes) ==
    LET n == FirstLF(bytes, 1)
    IN [line |-> IF n = 0 THEN bytes ELSE SubSeq(bytes, 1, n - 1),
        rest |-> IF n = 0 THEN <<>> ELSE SubSeq(bytes, n + 1, Len(bytes))]

read_line(bytes) ==
    LET n == FirstLF(bytes, 1)
        raw == IF n = 0 THEN bytes ELSE SubSeq(bytes, 1, n - 1)
        stripped == IF n > 0 /\ Len(raw) >= 1 /\ raw[Len(raw)] = CR
                    THEN SubSeq(raw, 1, Len(raw) - 1)
                    ELSE raw
    IN [line |-> stripped,
        rest |-> IF n = 0 THEN <<>> ELSE SubSeq(bytes, n + 1, Len(bytes))]

RECURSIVE lines(_)
lines(bytes) ==
    IF bytes = <<>> THEN <<>>
    ELSE LET r == read_line(bytes) IN <<r.line>> \o lines(r.rest)

---------------------------------------------------------------------------
(* replace_toolchanges (mode A): the body of its loop for one line.        *)

(* Mode A with the END line's M600 left out. *)
replace_toolchanges_line_no_m600(skip, line) ==
    IF starts_with(line, TOOLCHANGE_START)
    THEN [skip_block |-> TRUE, out |-> <<>>]
    ELSE IF starts_with(line, TOOLCHANGE_END)
    THEN [skip_block |-> FALSE, out |-> <<>>]
    ELSE IF ~skip
    THEN [skip_block |-> skip, out |-> line \o <<LF>>]
    ELSE [skip_block |-> skip, out |-> <<>>]

(* Mode A with the `continue` after the END line's M600 left out. *)
replace_toolchanges_line_no_continue(skip, line) ==
    IF starts_with(line, TOOLCHANGE_START)
    THEN [skip_block |-> TRUE, out |-> <<>>]
    ELSE IF starts_with(line, TOOLCHANGE_END)
    THEN [skip_block |-> FALSE, out |-> <<M600, LF>> \o line \o <<LF>>]
    ELSE IF ~skip
    THEN [skip_block |-> skip, out |-> line \o <<LF>>]
    ELSE [skip_block |-> skip, out |-> <<>>]

(* Mode A with the END line's M600 written only when a START opened the    *)
(* skipping.                                                               *)
replace_toolchanges_line_m600_if_skipping(skip, line) ==
    IF starts_with(line, TOOLCHANGE_START)
    THEN [skip_block |-> TRUE, out |-> <<>>]
    ELSE IF starts_with(line, TOOLCHANGE_END)
    THEN [skip_block |-> FALSE, out |-> IF skip THEN <<M600, LF>> ELSE <<>>]
    ELSE IF ~skip
    THEN [skip_block |-> skip, out |-> line \o <<LF>>]
    ELSE [skip_block |-> skip, out |-> <<>>]

replace_toolchanges_line(skip, line) ==
    IF starts_with(line, TOOLCHANGE_START)
    THEN [skip_block |-> TRUE, out |-> <<>>]
    ELSE IF starts_with(line, TOOLCHANGE_END)
    THEN [skip_block |-> FALSE, out |-> <<M600, LF>>]
    ELSE IF ~skip
    THEN [skip_block |-> skip, out |-> line \o <<LF>>]
    ELSE [skip_block |-> skip, out |-> <<>>]

(* replace_toolchanges run to its end on `bytes`: what it has written.      *)
RECURSIVE replace_toolchanges_from(_, _)
replace_toolchanges_from(skip, bytes) ==
    IF bytes = <<>> THEN <<>>
    ELSE LET r == read_line(bytes)
             s == replace_toolchanges_line(skip, r.line)
         IN s.out \o replace_toolchanges_from(s.skip_block, r.rest)

replace_toolchanges(bytes) == replace_toolchanges_from(FALSE, bytes)

(* replace_unloads (mode B): the body of its loop for one line.            *)

(* Mode B with the M600 written at the UNLOAD line, not at the WIPE line. *)
replace_unloads_line_m600_at_unload(skip, seen, total, line) ==
    IF starts_with(line, TOOLCHANGE_UNLOAD)
    THEN [skip_block |-> TRUE, toolchanges |-> seen, out |-> <<M600, LF>>]
    ELSE IF starts_with(line, TOOLCHANGE_WIPE)
    THEN [skip_block |-> FALSE, toolchanges |-> seen, out |-> <<>>]
    ELSE
      LET n == IF starts_with(line, TOOLCHANGE_START) THEN seen + 1 ELSE seen
      IN IF starts_with(line, TOOLCHANGE_START) /\ n > total
         THEN [skip_block |-> TRUE, toolchanges |-> n, out |-> <<>>]
         ELSE IF starts_with(line, TOOLCHANGE_END) /\ n > total
         THEN [skip_block |-> FALSE, toolchanges |-> n, out |-> <<>>]
         ELSE IF ~skip
         THEN [skip_block |-> skip, toolchanges |-> n, out |-> line \o <<LF>>]
         ELSE [skip_block |-> skip, toolchanges |-> n, out |-> <<>>]

(* Mode B with `toolchanges >= total_toolchanges` for `>`. *)
replace_unloads_line_off_by_one(skip, seen, total, line) ==
    IF starts_with(line, TOOLCHANGE_UNLOAD)
    THEN [skip_block |-> TRUE, toolchanges |-> seen, out |-> <<>>]
    ELSE IF starts_with(line, TOOLCHANGE_WIPE)
    THEN [skip_block |-> FALSE, toolchanges |-> seen, out |-> <<M600, LF>>]
    ELSE
      LET n == IF starts_with(line, TOOLCHANGE_START) THEN seen + 1 ELSE seen
      IN IF starts_with(line, TOOLCHANGE_START) /\ n >= total
         THEN [skip_block |-> TRUE, toolchanges |-> n, out |-> <<>>]
         ELSE IF starts_with(line, TOOLCHANGE_END) /\ n >= total
         THEN [skip_block |-> FALSE, toolchanges |-> n, out |-> <<>>]
         ELSE IF ~skip
         THEN [skip_block |-> skip, toolchanges |-> n, out |-> line \o <<LF>>]
         ELSE [skip_block |-> skip, toolchanges |-> n, out |-> <<>>]

(* Mode B with a START line counted only while nothing is skipped. *)
replace_unloads_line_count_unskipped(skip, seen, total, line) ==
    IF starts_with(line, TOOLCHANGE_UNLOAD)
    THEN [skip_block |-> TRUE, toolchanges |-> seen, out |-> <<>>]
    ELSE IF starts_with(line, TOOLCHANGE_WIPE)
    THEN [skip_block |-> FALSE, toolchanges |-> seen, out |-> <<M600, LF>>]
    ELSE
      LET n == IF starts_with(line, TOOLCHANGE_START) /\ ~skip
               THEN seen + 1 ELSE seen
      IN IF starts_with(line, TOOLCHANGE_START) /\ n > total
         THEN [skip_block |-> TRUE, toolchanges |-> n, out |-> <<>>]
         ELSE IF starts_with(line, TOOLCHANGE_END) /\ n > total
         THEN [skip_block |-> FALSE, toolchanges |-> n, out |-> <<>>]
         ELSE IF ~skip
         THEN [skip_block |-> skip, toolchanges |-> n, out |-> line \o <<LF>>]
         ELSE [skip_block |-> skip, toolchanges |-> n, out |-> <<>>]

(* Mode B with the END of a block beyond the count swallowed, skip_block   *)
(* left as it is.                                                          *)
replace_unloads_line_end_keeps_skip(skip, seen, total, line) ==
    IF starts_with(line, TOOLCHANGE_UNLOAD)
    THEN [skip_block |-> TRUE, toolchanges |-> seen, out |-> <<>>]
    ELSE IF starts_with(line, TOOLCHANGE_WIPE)
    THEN [skip_block |-> FALSE, toolchanges |-> seen, out |-> <<M600, LF>>]
    ELSE
      LET n == IF starts_with(line, TOOLCHANGE_START) THEN seen + 1 ELSE seen
      IN IF starts_with(line, TOOLCHANGE_START) /\ n > total
         THEN [skip_block |-> TRUE, toolchanges |-> n, out |-> <<>>]
         ELSE IF starts_with(line, TOOLCHANGE_END) /\ n > total
         THEN [skip_block |-> skip, toolchanges |-> n, out |-> <<>>]
         ELSE IF ~skip
         THEN [skip_block |-> skip, toolchanges |-> n, out |-> line \o <<LF>>]
         ELSE [skip_block |-> skip, toolchanges |-> n, out |-> <<>>]

replace_unloads_line(skip, seen, total, line) ==
    IF starts_with(line, TOOLCHANGE_UNLOAD)
    THEN [skip_block |-> TRUE, toolchanges |-> seen, out |-> <<>>]
    ELSE IF starts_with(line, TOOLCHANGE_WIPE)
    THEN [skip_block |-> FALSE, toolchanges |-> seen, out |-> <<M600, LF>>]
    ELSE
      LET n == IF starts_with(line, TOOLCHANGE_START) THEN seen + 1 ELSE seen
      IN IF starts_with(line, TOOLCHANGE_START) /\ n > total
         THEN [skip_block |-> TRUE, toolchanges |-> n, out |-> <<>>]
         ELSE IF starts_with(line, TOOLCHANGE_END) /\ n > total
         THEN [skip_block |-> FALSE, toolchanges |-> n, out |-> <<>>]
         ELSE IF ~skip
         THEN [skip_block |-> skip, toolchanges |-> n, out |-> line \o <<LF>>]
         ELSE [skip_block |-> skip, toolchanges |-> n, out |-> <<>>]

(* replace_unloads run to its end on `bytes`: what it has written.          *)
RECURSIVE replace_unloads_from(_, _, _, _)
replace_unloads_from(skip, seen, total, bytes) ==
    IF bytes = <<>> THEN <<>>
    ELSE LET r == read_line(bytes)
             s == replace_unloads_line(skip, seen, total, r.line)
         IN s.out \o replace_unloads_from(s.skip_block, s.toolchanges, total, r.rest)

replace_unloads(bytes, total) == replace_unloads_from(FALSE, 0, total, bytes)

---------------------------------------------------------------------------
(* SlicerConfig. *)

DefaultConfig == [wipe_tower |-> FALSE, total_toolchanges |-> 0]

Digits == {"0", "1", "4", TEN_NINES}

DigitsOf(c) ==
    CASE c = "0" -> <<0>>
      [] c = "1" -> <<1>>
      [] c = "4" -> <<4>>
      [] c = TEN_NINES -> <<9, 9, 9, 9, 9, 9, 9, 9, 9, 9>>

(* The digits one by one, as checked_mul(10) and checked_add(d) of a u32. *)
RECURSIVE parse_digits(_, _)
parse_digits(ds, acc) ==
    IF ds = <<>> THEN [ok |-> TRUE, n |-> acc]
    ELSE IF \/ acc > U32_MAX_DIV_10
            \/ (acc = U32_MAX_DIV_10 /\ Head(ds) > U32_MAX_MOD_10)
    THEN [ok |-> FALSE, n |-> 0]
    ELSE parse_digits(Tail(ds), acc * 10 + Head(ds))

(* str::parse::<u32>: an optional "+", then one digit or more and nothing  *)
(* else, of a value that fits 32 bits.                                     *)
parse(val) ==
    LET digits == IF val # <<>> /\ Head(val) = PLUS THEN Tail(val) ELSE val
    IN IF digits = <<>> \/ \E i \in DOMAIN digits : digits[i] \notin Digits
       THEN [ok |-> FALSE, n |-> 0]
       ELSE parse_digits(Concat([i \in DOMAIN digits |-> DigitsOf(digits[i])]), 0)

strip_prefix(line, prefix) ==
    IF starts_with(line, prefix)
    THEN [some |-> TRUE, val |-> Tail(line)]
    ELSE [some |-> FALSE, val |-> <<>>]

(* update_from_line with an unparsable count stored as 0. *)
update_from_line_unwrap_or_zero(cfg, line) ==
    LET t == strip_prefix(line, TOTAL_TOOLCHANGES_PREFIX)
        w == strip_prefix(line, WIPE_TOWER_PREFIX)
    IN IF t.some
       THEN [cfg EXCEPT !.total_toolchanges = parse(t.val).n]
       ELSE IF w.some
       THEN [cfg EXCEPT !.wipe_tower =
                IF w.val = <<"1">> THEN TRUE
                ELSE IF w.val = <<"0">> THEN FALSE
                ELSE cfg.wipe_tower]
       ELSE cfg

(* update_from_line with the count added up, not overwritten. *)
update_from_line_summed(cfg, line) ==
    LET t == strip_prefix(line, TOTAL_TOOLCHANGES_PREFIX)
        w == strip_prefix(line, WIPE_TOWER_PREFIX)
    IN IF t.some /\ parse(t.val).ok
       THEN [cfg EXCEPT !.total_toolchanges = @ + parse(t.val).n]
       ELSE IF w.some
       THEN [cfg EXCEPT !.wipe_tower =
                IF w.val = <<"1">> THEN TRUE
                ELSE IF w.val = <<"0">> THEN FALSE
                ELSE cfg.wipe_tower]
       ELSE cfg

(* update_from_line with every wipe_tower value but "1" taken as false. *)
update_from_line_else_false(cfg, line) ==
    LET t == strip_prefix(line, TOTAL_TOOLCHANGES_PREFIX)
        w == strip_prefix(line, WIPE_TOWER_PREFIX)
    IN IF t.some /\ parse(t.val).ok
       THEN [cfg EXCEPT !.total_toolchanges = parse(t.val).n]
       ELSE IF w.some
       THEN [cfg EXCEPT !.wipe_tower = (w.val = <<"1">>)]
       ELSE cfg

update_from_line(cfg, line) ==
    LET t == strip_prefix(line, TOTAL_TOOLCHANGES_PREFIX)
        w == strip_prefix(line, WIPE_TOWER_PREFIX)
    IN IF t.some /\ parse(t.val).ok
       THEN [cfg EXCEPT !.total_toolchanges = parse(t.val).n]
       ELSE IF w.some
       THEN [cfg EXCEPT !.wipe_tower =
                IF w.val = <<"1">> THEN TRUE
                ELSE IF w.val = <<"0">> THEN FALSE
                ELSE cfg.wipe_tower]
       ELSE cfg

(* SlicerConfig::read run to its end on `bytes`. *)
RECURSIVE read_from(_, _)
read_from(cfg, bytes) ==
    IF bytes = <<>> THEN cfg
    ELSE LET r == read_line(bytes)
         IN read_from(update_from_line(cfg, r.line), r.rest)

read(bytes) == read_from(DefaultConfig, bytes)

---------------------------------------------------------------------------
(* main's part of the state while a function is run on its own. *)

NoMain ==
    /\ args = <<>>
    /\ fs = [p \in {input_path, temp_path} |-> NoFile]
    /\ buf = <<>>
    /\ stdout = <<>>
    /\ result = "running"

---------------------------------------------------------------------------
(* The inputs the rewriters are run on. *)

BlockLine == {<<TOOLCHANGE_START>>, <<TOOLCHANGE_END>>, <<TOOLCHANGE_UNLOAD>>,
              <<TOOLCHANGE_WIPE>>, <<G1>>}

TermLine == {<<G1>>, <<G1, CR>>, <<>>, <<TOOLCHANGE_START, G1>>,
             <<TOOLCHANGE_END>>}

Terminator == {<<LF>>, <<CR, LF>>}

LfFiles(L) ==
    {Concat([i \in DOMAIN ls |-> ls[i] \o <<LF>>]) : ls \in SeqsUpTo(L, MaxLines)}

TermInputs ==
    {Concat([i \in DOMAIN ls |-> ls[i][1] \o ls[i][2]]) \o last :
        ls \in SeqsUpTo(TermLine \X Terminator, MaxTermLines),
        last \in {<<>>, <<G1>>, <<G1, CR>>}}

(* Mode A's inputs also hold lines that are M600 already. *)
ToolchangesInputs == LfFiles(BlockLine \cup {<<M600>>}) \cup TermInputs

UnloadsInputs == LfFiles(BlockLine) \cup TermInputs

---------------------------------------------------------------------------
(* Mode A run on its own, as the tests run it. *)

InitA ==
    /\ input \in ToolchangesInputs
    /\ reader = input
    /\ writer = <<>>
    /\ emitted = <<>>
    /\ skip_block = FALSE
    /\ toolchanges = 0
    /\ total_toolchanges = 0
    /\ config = DefaultConfig
    /\ NoMain
    /\ pc = "replace_toolchanges"

ToolchangesLine ==
    /\ pc = "replace_toolchanges"
    /\ reader # <<>>
    /\ LET r == read_line(reader)
           s == replace_toolchanges_line(skip_block, r.line)
       IN /\ reader' = r.rest
          /\ skip_block' = s.skip_block
          /\ writer' = writer \o s.out
          /\ emitted' = Append(emitted, s.out)
    /\ UNCHANGED <<input, toolchanges, total_toolchanges, config, pc>>
    /\ UNCHANGED mainVars

ToolchangesFlush ==
    /\ pc = "replace_toolchanges"
    /\ reader = <<>>
    /\ pc' = "done"
    /\ UNCHANGED <<input, reader, writer, emitted, skip_block, toolchanges,
                   total_toolchanges, config>>
    /\ UNCHANGED mainVars

NextA == ToolchangesLine \/ ToolchangesFlush

SpecA == InitA /\ [][NextA]_vars

---------------------------------------------------------------------------
(* Mode B run on its own, as the tests run it. *)

InitB ==
    /\ input \in UnloadsInputs
    /\ reader = input
    /\ writer = <<>>
    /\ emitted = <<>>
    /\ skip_block = FALSE
    /\ toolchanges = 0
    /\ total_toolchanges \in 0..MaxToolchanges
    /\ config = DefaultConfig
    /\ NoMain
    /\ pc = "replace_unloads"

UnloadsLine ==
    /\ pc = "replace_unloads"
    /\ reader # <<>>
    /\ LET r == read_line(reader)
           s == replace_unloads_line(skip_block, toolchanges,
                                     total_toolchanges, r.line)
       IN /\ reader' = r.rest
          /\ skip_block' = s.skip_block
          /\ toolchanges' = s.toolchanges
          /\ writer' = writer \o s.out
          /\ emitted' = Append(emitted, s.out)
    /\ UNCHANGED <<input, total_toolchanges, config, pc>>
    /\ UNCHANGED mainVars

UnloadsFlush ==
    /\ pc = "replace_unloads"
    /\ reader = <<>>
    /\ pc' = "done"
    /\ UNCHANGED <<input, reader, writer, emitted, skip_block, toolchanges,
                   total_toolchanges, config>>
    /\ UNCHANGED mainVars

NextB == UnloadsLine \/ UnloadsFlush

SpecB == InitB /\ [][NextB]_vars

---------------------------------------------------------------------------
(* Either rewriter run on its own: what is said of both modes is checked   *)
(* here; pc tells which of the two functions is running.                   *)

InitAB == InitA \/ InitB

NextAB ==
    \/ ToolchangesLine
    \/ ToolchangesFlush
    \/ UnloadsLine
    \/ UnloadsFlush

SpecAB == InitAB /\ [][NextAB]_vars

---------------------------------------------------------------------------
(* SlicerConfig::read run on its own, as the test runs it. *)

ConfigLine ==
    {<<TOTAL_TOOLCHANGES_PREFIX, "4">>, <<TOTAL_TOOLCHANGES_PREFIX, "1", "0">>,
     <<TOTAL_TOOLCHANGES_PREFIX, PLUS, "1">>, <<TOTAL_TOOLCHANGES_PREFIX, ABC>>,
     <<TOTAL_TOOLCHANGES_PREFIX, "4", ABC>>, <<TOTAL_TOOLCHANGES_PREFIX>>,
     <<TOTAL_TOOLCHANGES_PREFIX, MINUS, "1">>,
     <<TOTAL_TOOLCHANGES_PREFIX, TEN_NINES>>,
     <<WIPE_TOWER_PREFIX, "1">>, <<WIPE_TOWER_PREFIX, "0">>,
     <<WIPE_TOWER_PREFIX, "1", "0">>, <<WIPE_TOWER_PREFIX>>,
     <<TOOLCHANGE_START>>, <<G1, TOTAL_TOOLCHANGES_PREFIX, "4">>}

ConfigInputs ==
    {Concat([i \in DOMAIN ls |-> ls[i] \o <<LF>>]) :
        ls \in SeqsUpTo(ConfigLine, MaxConfigLines)}

InitRead ==
    /\ input \in ConfigInputs
    /\ reader = input
    /\ writer = <<>>
    /\ emitted = <<>>
    /\ skip_block = FALSE
    /\ toolchanges = 0
    /\ total_toolchanges = 0
    /\ config = DefaultConfig
    /\ NoMain
    /\ pc = "read"

ReadLine ==
    /\ pc = "read"
    /\ reader # <<>>
    /\ LET r == read_line(reader)
       IN /\ reader' = r.rest
          /\ config' = update_from_line(config, r.line)
    /\ UNCHANGED <<input, writer, emitted, skip_block, toolchanges,
                   total_toolchanges, pc>>
    /\ UNCHANGED mainVars

ReadOk ==
    /\ pc = "read"
    /\ reader = <<>>
    /\ pc' = "done"
    /\ UNCHANGED <<input, reader, writer, emitted, skip_block, toolchanges,
                   total_toolchanges, config>>
    /\ UNCHANGED mainVars

NextRead == ReadLine \/ ReadOk

SpecRead == InitRead /\ [][NextRead]_vars

---------------------------------------------------------------------------
(* main. *)

ArgLists ==
    {<<>>, <<input_path>>, <<"-h">>, <<"--help">>, <<input_path, "-h">>,
     <<input_path, input_path>>}

FileLine ==
    {<<WIPE_TOWER_PREFIX, "1">>, <<TOTAL_TOOLCHANGES_PREFIX, "1">>,
     <<TOOLCHANGE_START>>, <<TOOLCHANGE_END>>, <<TOOLCHANGE_UNLOAD>>,
     <<TOOLCHANGE_WIPE>>, <<G1>>}

Files ==
    {Concat([i \in DOMAIN ls |-> ls[i] \o <<LF>>]) :
        ls \in SeqsUpTo(FileLine, MaxFileLines)}

(* usage that lets more than one argument through: `<` for `!=`. *)
usage_extra_args_pass(argv) ==
    \/ Len(argv) + 1 < 2
    \/ \E i \in DOMAIN argv : argv[i] = "-h" \/ argv[i] = "--help"

(* args.len() != 2 || args.iter().any(|arg| arg == "-h" || arg == "--help") *)
usage(argv) ==
    \/ Len(argv) + 1 # 2
    \/ \E i \in DOMAIN argv : argv[i] = "-h" \/ argv[i] = "--help"

(* tempfile that creates its file at the input's path. *)
tempfile_in_place(files) == [files EXCEPT ![input_path] = File(<<>>)]

(* tempfile: File::create at a path of the temporary directory. *)
tempfile(files) == [files EXCEPT ![temp_path] = File(<<>>)]

(* fs::rename: the file at `from` is from then on the file at `to`. *)
rename(files, from, to) == [files EXCEPT ![to] = files[from], ![from] = NoFile]

Init ==
    /\ args \in ArgLists
    /\ input \in Files
    /\ \E there \in BOOLEAN :
          fs = [p \in {input_path, temp_path} |->
                   IF p = input_path /\ there THEN File(input) ELSE NoFile]
    /\ (fs[input_path] = NoFile) => input = <<>>
    /\ reader = <<>>
    /\ writer = <<>>
    /\ emitted = <<>>
    /\ skip_block = FALSE
    /\ toolchanges = 0
    /\ total_toolchanges = 0
    /\ config = DefaultConfig
    /\ buf = <<>>
    /\ stdout = <<>>
    /\ result = "running"
    /\ pc = "main"

rewriterVars == <<reader, writer, emitted, skip_block, toolchanges,
                  total_toolchanges>>

(* Lines 142-147: the usage text, and Ok. *)
Usage ==
    /\ pc = "main"
    /\ usage(args)
    /\ stdout' = Append(stdout, "Usage")
    /\ result' = "Ok"
    /\ pc' = "exit"
    /\ UNCHANGED <<input, config, args, fs, buf>>
    /\ UNCHANGED rewriterVars

(* Line 150: File::open of a file that is there. *)
Open ==
    /\ pc = "main"
    /\ ~usage(args)
    /\ fs[args[1]].exists
    /\ reader' = fs[args[1]].bytes
    /\ pc' = "from_file"
    /\ UNCHANGED <<input, writer, emitted, skip_block, toolchanges,
                   total_toolchanges, config, args, fs, buf, stdout, result>>

(* Line 150: File::open fails (no such file, or no right to read it). *)
OpenErr ==
    /\ pc = "main"
    /\ ~usage(args)
    /\ result' = "Err"
    /\ pc' = "exit"
    /\ UNCHANGED <<input, config, args, fs, buf, stdout>>
    /\ UNCHANGED rewriterVars

(* Line 152: one line of SlicerConfig::from_file. *)
FromFileLine ==
    /\ pc = "from_file"
    /\ reader # <<>>
    /\ LET r == read_line(reader)
       IN /\ reader' = r.rest
          /\ config' = update_from_line(config, r.line)
    /\ UNCHANGED <<input, writer, emitted, skip_block, toolchanges,
                   total_toolchanges, args, fs, buf, stdout, result, pc>>

(* Seek that leaves the file where from_file left it, at its end. *)
Seek_no_rewind ==
    /\ pc = "from_file"
    /\ reader = <<>>
    /\ pc' = "tempfile"
    /\ UNCHANGED <<input, reader, writer, emitted, skip_block, toolchanges,
                   total_toolchanges, config, args, fs, buf, stdout, result>>

(* Lines 152-155: from_file returns the config; the file is read again     *)
(* from its start.                                                         *)
Seek ==
    /\ pc = "from_file"
    /\ reader = <<>>
    /\ reader' = fs[args[1]].bytes
    /\ pc' = "tempfile"
    /\ UNCHANGED <<input, writer, emitted, skip_block, toolchanges,
                   total_toolchanges, config, args, fs, buf, stdout, result>>

(* Lines 157-163: the temporary file is created and the rewriter the       *)
(* config selects is entered.                                              *)
Tempfile ==
    /\ pc = "tempfile"
    /\ fs' = tempfile(fs)
    /\ writer' = <<>>
    /\ buf' = <<>>
    /\ emitted' = <<>>
    /\ skip_block' = FALSE
    /\ toolchanges' = 0
    /\ total_toolchanges' = config.total_toolchanges
    /\ pc' = IF config.wipe_tower THEN "main.replace_unloads"
             ELSE "main.replace_toolchanges"
    /\ UNCHANGED <<input, reader, config, args, stdout, result>>

(* One line of the rewriter, written to the BufWriter, which first passes  *)
(* its buffer on to the file when the line does not fit.                   *)
RewriteLine ==
    /\ pc \in {"main.replace_unloads", "main.replace_toolchanges"}
    /\ reader # <<>>
    /\ LET r == read_line(reader)
           a == replace_toolchanges_line(skip_block, r.line)
           s == IF pc = "main.replace_unloads"
                THEN replace_unloads_line(skip_block, toolchanges,
                                          total_toolchanges, r.line)
                ELSE [skip_block |-> a.skip_block, toolchanges |-> toolchanges,
                      out |-> a.out]
       IN /\ reader' = r.rest
          /\ skip_block' = s.skip_block
          /\ toolchanges' = s.toolchanges
          /\ writer' = writer \o s.out
          /\ emitted' = Append(emitted, s.out)
          /\ \E fits \in BOOLEAN :
                IF fits
                THEN buf' = buf \o s.out /\ fs' = fs
                ELSE /\ buf' = s.out
                     /\ fs' = [fs EXCEPT ![temp_path].bytes = @ \o buf]
    /\ UNCHANGED <<input, total_toolchanges, config, args, stdout, result, pc>>

(* Lines 97 and 122: writer.flush() at the end of the input. *)
Flush ==
    /\ pc \in {"main.replace_unloads", "main.replace_toolchanges"}
    /\ reader = <<>>
    /\ fs' = [fs EXCEPT ![temp_path].bytes = @ \o buf]
    /\ buf' = <<>>
    /\ pc' = "rename"
    /\ UNCHANGED <<input, reader, writer, emitted, skip_block, toolchanges,
                   total_toolchanges, config, args, stdout, result>>

(* Line 166: fs::rename of the temporary file onto the input's path. *)
Rename ==
    /\ pc = "rename"
    /\ fs' = rename(fs, temp_path, args[1])
    /\ pc' = "success"
    /\ UNCHANGED <<input, config, args, buf, stdout, result>>
    /\ UNCHANGED rewriterVars

(* Lines 168-169. *)
Success ==
    /\ pc = "success"
    /\ stdout' = Append(stdout, "Success")
    /\ result' = "Ok"
    /\ pc' = "exit"
    /\ UNCHANGED <<input, config, args, fs, buf>>
    /\ UNCHANGED rewriterVars

(* A `?` of lines 152-166 returns the error: reading a line, seeking,      *)
(* creating the temporary file, writing, flushing or renaming fails.  The  *)
(* BufWriter, when there is one, is dropped, and passes its buffer on to   *)
(* the temporary file if it can.                                           *)
IoErr ==
    /\ pc \in {"from_file", "tempfile", "main.replace_unloads",
               "main.replace_toolchanges", "rename"}
    /\ result' = "Err"
    /\ pc' = "exit"
    /\ \E dropped \in BOOLEAN :
          IF dropped /\ fs[temp_path].exists
          THEN fs' = [fs EXCEPT ![temp_path].bytes = @ \o buf] /\ buf' = <<>>
          ELSE fs' = fs /\ buf' = buf
    /\ UNCHANGED <<input, config, args, stdout>>
    /\ UNCHANGED rewriterVars

Next ==
    \/ Usage
    \/ Open
    \/ OpenErr
    \/ FromFileLine
    \/ Seek
    \/ Tempfile
    \/ RewriteLine
    \/ Flush
    \/ Rename
    \/ Success
    \/ IoErr

Spec == Init /\ [][Next]_vars

---------------------------------------------------------------------------
(* What the claims speak of: the input's lines, the output's lines, the    *)
(* markers, the START...END blocks.                                        *)

IsStart(line) == starts_with(line, TOOLCHANGE_START)
IsEnd(line) == starts_with(line, TOOLCHANGE_END)
IsUnload(line) == starts_with(line, TOOLCHANGE_UNLOAD)
IsWipe(line) == starts_with(line, TOOLCHANGE_WIPE)
IsMarker(line) == IsStart(line) \/ IsEnd(line) \/ IsUnload(line) \/ IsWipe(line)
IsM600(line) == line = <<M600>>
IsUnloadOrWipe(line) == IsUnload(line) \/ IsWipe(line)

(* The input as the reader's lines. *)
inl == lines(input)

(* The output cut at each LF, nothing else removed. *)
RECURSIVE records(_)
records(bytes) ==
    IF bytes = <<>> THEN <<>>
    ELSE LET n == FirstLF(bytes, 1)
         IN IF n = 0 THEN <<bytes>>
            ELSE <<SubSeq(bytes, 1, n - 1)>> \o records(SubSeq(bytes, n + 1, Len(bytes)))

outl == records(writer)

StartsTo(ls, i) == Cardinality({k \in 1..i : IsStart(ls[k])})
EndsTo(ls, i) == Cardinality({k \in 1..i : IsEnd(ls[k])})

(* Balanced, non-nested blocks: reading on, the STARTs are never behind    *)
(* the ENDs nor more than one ahead, and level at the end.                 *)
Balanced(ls) ==
    /\ \A i \in 0..Len(ls) : StartsTo(ls, i) - EndsTo(ls, i) \in {0, 1}
    /\ StartsTo(ls, Len(ls)) = EndsTo(ls, Len(ls))

(* Line i of a balanced input lies in a block, its START and END included. *)
InBlock(ls, i) == StartsTo(ls, i) > EndsTo(ls, i - 1)

(* A START before line i has no END between it and line i. *)
RegionOpen(ls, i) ==
    \E s \in 1..(i - 1) :
        IsStart(ls[s]) /\ \A k \in (s + 1)..(i - 1) : ~IsEnd(ls[k])

(* Line i is the END that closes a START...END region. *)
Closer(ls, i) == IsEnd(ls[i]) /\ RegionOpen(ls, i)

(* Line i is a line of a START...END region that an END closes. *)
InClosedRegion(ls, i) ==
    /\ IsStart(ls[i]) \/ RegionOpen(ls, i)
    /\ \E e \in i..Len(ls) : IsEnd(ls[e])

LfOnly(bytes) ==
    /\ bytes = <<>> \/ bytes[Len(bytes)] = LF
    /\ \A i \in 2..Len(bytes) : bytes[i] = LF => bytes[i - 1] # CR

HasCrLf(bytes) == \E i \in 2..Len(bytes) : bytes[i] = LF /\ bytes[i - 1] = CR

---------------------------------------------------------------------------
(* C1 as stated: in mode A, for balanced non-nested blocks, the output has *)
(* as many M600 lines as the input has START lines, and no output line     *)
(* has a marker prefix.  Fails: an M600 line, an UNLOAD line or a WIPE     *)
(* line outside the blocks is copied to the output.                        *)
C1_AsStated ==
    (pc = "done" /\ Balanced(inl)) =>
        /\ CountIf(outl, IsM600) = CountIf(inl, IsStart)
        /\ \A j \in DOMAIN outl : ~IsMarker(outl[j])

(* C1, amended: in mode A, for balanced non-nested blocks, the output's    *)
(* M600 lines are as many as the input's START lines plus the input's M600 *)
(* lines outside the blocks; no output line has the START or the END       *)
(* prefix; the output's UNLOAD and WIPE lines are as many as the input has *)
(* outside the blocks.                                                     *)
C1_M600PerStart ==
    (pc = "done" /\ Balanced(inl)) =>
        /\ CountIf(outl, IsM600) =
              CountIf(inl, IsStart)
              + Cardinality({i \in DOMAIN inl : ~InBlock(inl, i) /\ IsM600(inl[i])})
        /\ \A j \in DOMAIN outl : ~IsStart(outl[j]) /\ ~IsEnd(outl[j])
        /\ CountIf(outl, IsUnloadOrWipe) =
              Cardinality({i \in DOMAIN inl :
                              ~InBlock(inl, i) /\ IsUnloadOrWipe(inl[i])})

C1_Witness ==
    /\ pc = "done"
    /\ Balanced(inl)
    /\ CountIf(inl, IsStart) = 2
    /\ \E i \in DOMAIN inl : InBlock(inl, i) /\ IsUnload(inl[i])
    /\ CountIf(outl, IsM600) = 2

---------------------------------------------------------------------------
(* What mode A writes for line i, by the input alone: nothing for a START  *)
(* line, M600 for an END line, nothing for another line after an unclosed  *)
(* START, the line itself otherwise.                                       *)
ExpectedA(ls) ==
    [i \in DOMAIN ls |->
        IF IsStart(ls[i]) THEN <<>>
        ELSE IF IsEnd(ls[i]) THEN <<M600, LF>>
        ELSE IF RegionOpen(ls, i) THEN <<>>
        ELSE ls[i] \o <<LF>>]

(* The same with only the START...END regions replaced, as C5 states it:   *)
(* a line outside every such region is copied.                             *)
RegionsReplacedA(ls) ==
    [i \in DOMAIN ls |->
        IF Closer(ls, i) THEN <<M600, LF>>
        ELSE IF InClosedRegion(ls, i) THEN <<>>
        ELSE ls[i] \o <<LF>>]

(* C5 as stated: mode A's output is the input with every START...END       *)
(* region replaced by one M600 line and every line outside such regions    *)
(* copied, once, in order.  Fails: an END line outside a region becomes    *)
(* M600, and the lines after a START that no END closes are dropped.       *)
C5_AsStated ==
    pc = "done" => writer = Concat(RegionsReplacedA(inl))

(* C5, amended: mode A's output is the input with every START...END region *)
(* (from a START line to the next END line) replaced by one M600 line, an  *)
(* END line outside every region replaced by one M600 line too, a START    *)
(* line with no later END dropped with all the lines after it, and every   *)
(* other line copied, once, in input order.                                *)
C5_RegionsCollapse ==
    pc = "done" => /\ writer = Concat(ExpectedA(inl))
                   /\ emitted = ExpectedA(inl)

C5_Witness ==
    /\ pc = "done"
    /\ \E i \in DOMAIN inl :
          /\ Closer(inl, i)
          /\ \E j \in 1..(i - 1) : RegionOpen(inl, j) /\ IsUnload(inl[j])
          /\ \E k \in 1..(i - 1) : ~RegionOpen(inl, k) /\ inl[k] = <<G1>>
          /\ \E k \in (i + 1)..Len(inl) : inl[k] = <<G1>>
    /\ writer = <<G1, LF, M600, LF, G1, LF>>

---------------------------------------------------------------------------
NoMarkers(ls) == \A i \in DOMAIN ls : ~IsMarker(ls[i])

(* C6 as stated: in mode A an input with no marker line comes out byte for *)
(* byte.  Fails: a CR LF terminator comes out as LF, and an unterminated   *)
(* last line comes out terminated.                                         *)
C6_AsStated ==
    (pc = "done" /\ NoMarkers(inl)) => writer = input

(* C6, amended: in mode A an input with no marker line comes out with the  *)
(* same lines in the same order, each ended by one LF; the output is byte  *)
(* for byte the input exactly when every line of the input ends in a bare  *)
(* LF (no CR LF, no unterminated last line).                               *)
C6_IdentityOnLfInput ==
    (pc = "done" /\ NoMarkers(inl)) =>
        /\ records(writer) = inl
        /\ writer = <<>> \/ writer[Len(writer)] = LF
        /\ (writer = input) <=> LfOnly(input)

C6_Witness ==
    /\ pc = "done"
    /\ NoMarkers(inl)
    /\ Len(inl) >= 2
    /\ LfOnly(input)
    /\ writer = input

---------------------------------------------------------------------------
(* C7 as stated: mode A run on its own output gives that output again, for *)
(* every input.  Fails: a line that still ends in CR once its terminator   *)
(* is removed is copied with that CR, and the second run removes it.       *)
C7_AsStated ==
    pc = "done" => replace_toolchanges(writer) = writer

(* C7, amended: mode A run on its own output gives that output again for   *)
(* every input whose output has no line ending in CR, and only for those   *)
(* (an output line ends in CR when the input line ended in CR CR LF, or in *)
(* CR with no terminator at the end of the input).                         *)
C7_IdempotentWithoutCr ==
    pc = "done" => ((replace_toolchanges(writer) = writer) <=> ~HasCrLf(writer))

C7_Witness ==
    /\ pc = "done"
    /\ \E i \in DOMAIN inl : Closer(inl, i)
    /\ \E i \in DOMAIN inl : ~IsMarker(inl[i]) /\ ~RegionOpen(inl, i)
    /\ ~HasCrLf(writer)
    /\ input # writer
    /\ replace_toolchanges(writer) = writer

---------------------------------------------------------------------------
(* Mode B.  Line i of a balanced input lies in block number StartsTo(i).   *)

SameBlock(ls, a, b) ==
    InBlock(ls, a) /\ InBlock(ls, b) /\ StartsTo(ls, a) = StartsTo(ls, b)

(* Line i is a rewriter's own M600, not a copied line. *)
Produced(i) == emitted[i] = <<M600, LF>> /\ ~IsM600(inl[i])

(* C2: in mode B every block after the first total_toolchanges blocks is   *)
(* absent from the output, START, END and every line between, whatever     *)
(* markers it holds.  Fails on the code: a WIPE line in such a block       *)
(* writes M600 and ends the skipping.                                      *)
C2_LaterBlocksAbsent ==
    (pc = "done" /\ Balanced(inl)) =>
        \A i \in DOMAIN inl :
            (InBlock(inl, i) /\ StartsTo(inl, i) > total_toolchanges)
                => emitted[i] = <<>>

---------------------------------------------------------------------------
WipesIn(ls, k) ==
    {i \in DOMAIN ls : InBlock(ls, i) /\ StartsTo(ls, i) = k /\ IsWipe(ls[i])}

---------------------------------------------------------------------------
(* An UNLOAD before line i has no WIPE between it and line i. *)
OpenUnload(ls, i) ==
    \E u \in 1..(i - 1) :
        IsUnload(ls[u]) /\ \A k \in (u + 1)..(i - 1) : ~IsWipe(ls[k])

(* Line i lies in its block between an UNLOAD and the next WIPE, both      *)
(* included.                                                               *)
InSpan(ls, i) ==
    \E u \in 1..i : \E w \in i..Len(ls) :
        /\ SameBlock(ls, u, i) /\ SameBlock(ls, i, w)
        /\ IsUnload(ls[u]) /\ IsWipe(ls[w])
        /\ \A k \in u..(w - 1) : ~IsWipe(ls[k])

BlockStart(ls, i) ==
    CHOOSE s \in 1..i : IsStart(ls[s]) /\ StartsTo(ls, s) = StartsTo(ls, i)

BlockEnd(ls, i) ==
    CHOOSE e \in i..Len(ls) : IsEnd(ls[e]) /\ \A k \in i..(e - 1) : ~IsEnd(ls[k])

(* The block of line i starts with no UNLOAD open, ends with none open,    *)
(* and each of its WIPE lines closes an UNLOAD.                            *)
PairedBlock(ls, i) ==
    /\ ~OpenUnload(ls, BlockStart(ls, i))
    /\ ~OpenUnload(ls, BlockEnd(ls, i))
    /\ \A w \in DOMAIN ls :
          (SameBlock(ls, i, w) /\ IsWipe(ls[w])) => OpenUnload(ls, w)

SpanReplaced(ls, i) ==
    IF InSpan(ls, i)
    THEN (IF IsWipe(ls[i]) THEN <<M600, LF>> ELSE <<>>)
    ELSE ls[i] \o <<LF>>

(* C4 as stated: in mode B, in each of the first total_toolchanges blocks  *)
(* the lines from UNLOAD through WIPE are replaced by one M600 and START,  *)
(* END and every other line of the block are copied.  Fails: after an      *)
(* UNLOAD that no WIPE closes, in the block or before it, the block's      *)
(* other lines, its END or its START are dropped; a WIPE with no UNLOAD    *)
(* becomes M600.                                                           *)
C4_AsStated ==
    (pc = "done" /\ Balanced(inl)) =>
        \A i \in DOMAIN inl :
            (InBlock(inl, i) /\ StartsTo(inl, i) <= total_toolchanges)
                => emitted[i] = SpanReplaced(inl, i)

(* C4, amended: in mode B, in each of the first total_toolchanges blocks   *)
(* that starts with no earlier UNLOAD left unclosed and in which every     *)
(* UNLOAD is closed by a WIPE and every WIPE closes an UNLOAD, the lines   *)
(* from each UNLOAD through its WIPE are replaced by one M600 at that      *)
(* place, and START, END and every other line of the block are copied, in  *)
(* input order.                                                            *)
C4_SpanCollapses ==
    (pc = "done" /\ Balanced(inl)) =>
        /\ writer = Concat(emitted)
        /\ \A i \in DOMAIN inl :
              ( /\ InBlock(inl, i)
                /\ StartsTo(inl, i) <= total_toolchanges
                /\ PairedBlock(inl, i) )
                  => emitted[i] = SpanReplaced(inl, i)

C4_Witness ==
    /\ pc = "done"
    /\ Balanced(inl)
    /\ total_toolchanges >= 1
    /\ inl = << <<TOOLCHANGE_START>>, <<TOOLCHANGE_UNLOAD>>, <<G1>>,
                <<TOOLCHANGE_WIPE>>, <<TOOLCHANGE_END>> >>
    /\ PairedBlock(inl, 1)
    /\ InSpan(inl, 3)
    /\ writer = <<TOOLCHANGE_START, LF, M600, LF, TOOLCHANGE_END, LF>>

---------------------------------------------------------------------------
(* SlicerConfig::read.  A line has a value when it has the prefix and its  *)
(* remainder reads as one: an unsigned integer, or exactly 1 or 0.         *)

IsTotalLine(line) == starts_with(line, TOTAL_TOOLCHANGES_PREFIX)
IsWipeTowerLine(line) == starts_with(line, WIPE_TOWER_PREFIX)

TotalValued(ls) == {i \in DOMAIN ls : IsTotalLine(ls[i]) /\ parse(Tail(ls[i])).ok}
WipeTowerValued(ls) ==
    {i \in DOMAIN ls : IsWipeTowerLine(ls[i]) /\ Tail(ls[i]) \in {<<"1">>, <<"0">>}}

Last(S) == CHOOSE i \in S : \A j \in S : j <= i

(* C8: after the scan total_toolchanges is the value of the last           *)
(* `; total toolchanges = ` line that has one (0 if none has) and          *)
(* wipe_tower that of the last `; wipe_tower = ` line that has one (false  *)
(* if none has): overwritten, never summed, whatever START lines the file  *)
(* holds.                                                                  *)
C8_LastWriteWins ==
    pc = "done" =>
        /\ config.total_toolchanges =
              IF TotalValued(inl) = {} THEN 0
              ELSE parse(Tail(inl[Last(TotalValued(inl))])).n
        /\ config.wipe_tower =
              IF WipeTowerValued(inl) = {} THEN FALSE
              ELSE Tail(inl[Last(WipeTowerValued(inl))]) = <<"1">>

C8_Witness ==
    /\ pc = "done"
    /\ \E i, j \in TotalValued(inl) :
          i < j /\ parse(Tail(inl[i])).n = 4 /\ parse(Tail(inl[j])).n = 10
    /\ WipeTowerValued(inl) # {}
    /\ config = [wipe_tower |-> TRUE, total_toolchanges |-> 10]

(* C9: a `; total toolchanges = ` line whose remainder is no unsigned      *)
(* integer leaves total_toolchanges and wipe_tower as they were, and the   *)
(* scan goes on with the next line.                                        *)
C9_UnparsableCountIgnored ==
    [][ ( /\ pc = "read"
          /\ reader # <<>>
          /\ IsTotalLine(read_line(reader).line)
          /\ ~parse(Tail(read_line(reader).line)).ok )
        => ( /\ config' = config
             /\ pc' = "read"
             /\ reader' = read_line(reader).rest ) ]_vars

C9_Witness ==
    /\ pc = "done"
    /\ Len(inl) = 3
    /\ inl[1] = <<TOTAL_TOOLCHANGES_PREFIX, "4">>
    /\ inl[2] = <<TOTAL_TOOLCHANGES_PREFIX, ABC>>
    /\ inl[3] = <<WIPE_TOWER_PREFIX, "1">>
    /\ config = [wipe_tower |-> TRUE, total_toolchanges |-> 4]

---------------------------------------------------------------------------
(* main.  What one invocation is to leave at the input's path. *)

Rewritten(bytes) ==
    IF read(bytes).wipe_tower
    THEN replace_unloads(bytes, read(bytes).total_toolchanges)
    ELSE replace_toolchanges(bytes)

(* C10: at every moment of one invocation the input's path holds the whole *)
(* original content or the whole rewritten content; it changes only by the *)
(* rename, which happens only once the rewriter has read all of the input  *)
(* and the writer is flushed into the temporary file; and when a step      *)
(* fails the path holds what it held at the start.                         *)
C10_AllOrNothing ==
    /\ [](fs[input_path].exists =>
              fs[input_path].bytes \in {input, Rewritten(input)})
    /\ [](result = "Err" => fs[input_path] \in {File(input), NoFile})
    /\ [][ fs'[input_path] # fs[input_path] =>
              /\ pc = "rename" /\ pc' = "success"
              /\ reader = <<>>
              /\ buf = <<>>
              /\ fs[temp_path] = File(Rewritten(input))
              /\ fs[input_path] = File(input)
              /\ fs'[input_path] = File(Rewritten(input)) ]_vars

C10_Witness ==
    /\ pc = "exit"
    /\ result = "Ok"
    /\ stdout = <<"Success">>
    /\ config.wipe_tower
    /\ Rewritten(input) # input
    /\ fs[input_path] = File(Rewritten(input))
    /\ fs[temp_path] = NoFile

---------------------------------------------------------------------------
(* C11.  Usage and help perform no file access.                            *)

(* The arguments name no single input file: there is not exactly one, or   *)
(* the one there is asks for help.                                         *)
NoInputNamed == Len(args) # 1 \/ args[1] \in {"-h", "--help"}

(* C11: when the program is not given exactly one argument, or is given    *)
(* -h or --help, its only step prints the usage text and ends with Ok:     *)
(* no file is opened for reading, no temporary file is created, nothing is *)
(* renamed, and no file of the file system changes.                        *)
C11_UsageTouchesNoFile ==
    /\ [](NoInputNamed =>
            /\ pc \in {"main", "exit"}
            /\ reader = <<>>
            /\ ~fs[temp_path].exists
            /\ (pc = "exit" => result = "Ok" /\ stdout = <<"Usage">>))
    /\ [][NoInputNamed =>
            /\ fs' = fs
            /\ stdout' = <<"Usage">>
            /\ result' = "Ok"
            /\ pc' = "exit"]_vars

(* The program was given a file that is there and -h after it, has printed *)
(* the usage text and ended; the file is as it was.                        *)
C11_Witness ==
    /\ pc = "exit"
    /\ args = <<input_path, "-h">>
    /\ stdout = <<"Usage">>
    /\ result = "Ok"
    /\ input # <<>>
    /\ fs[input_path] = File(input)
    /\ fs[temp_path] = NoFile

---------------------------------------------------------------------------
(* C12.  skip_block at the end of a well-formed input.                     *)

(* The rewriter has read the input's last line and has not yet flushed. *)
AtEndA == pc = "replace_toolchanges" /\ reader = <<>>
AtEndB == pc = "replace_unloads" /\ reader = <<>>

LaterWipe(ls, u) == \E w \in (u + 1)..Len(ls) : IsWipe(ls[w])
LaterEnd(ls, s) == \E e \in (s + 1)..Len(ls) : IsEnd(ls[e])

(* A later END of a block beyond the count: the (total+1)-th START or a    *)
(* later one precedes it.                                                  *)
LaterOverCountEnd(ls, u, total) ==
    \E e \in (u + 1)..Len(ls) : IsEnd(ls[e]) /\ StartsTo(ls, e) > total

(* No marker from line i on. *)
Trailing(ls, i) == \A k \in i..Len(ls) : ~IsMarker(ls[k])

(* C12 as stated: at the end of an input of balanced blocks in which every *)
(* UNLOAD has a later WIPE or lies in a block (whose END follows it),      *)
(* skip_block is false in both modes.  Fails in mode B: the END of one of  *)
(* the first total_toolchanges blocks does not end the skipping an UNLOAD  *)
(* began.                                                                  *)
C12_AsStated ==
    ( /\ AtEndA \/ AtEndB
      /\ Balanced(inl)
      /\ \A u \in DOMAIN inl :
            IsUnload(inl[u]) => (LaterWipe(inl, u) \/ InBlock(inl, u)) )
        => skip_block = FALSE

(* C12, amended: at the end of an input in which every START has a later   *)
(* END and, in mode B, every UNLOAD has a later WIPE or a later END of a   *)
(* block beyond total_toolchanges, skip_block is false in both modes, and  *)
(* every line after the last marker is copied.                             *)
C12_SkipEndsWithClosers ==
    LET ls == inl
    IN ( /\ AtEndA \/ AtEndB
         /\ \A s \in DOMAIN ls : IsStart(ls[s]) => LaterEnd(ls, s)
         /\ AtEndB =>
               \A u \in DOMAIN ls :
                   IsUnload(ls[u]) =>
                       \/ LaterWipe(ls, u)
                       \/ LaterOverCountEnd(ls, u, total_toolchanges) )
           => /\ skip_block = FALSE
              /\ \A i \in DOMAIN ls :
                    Trailing(ls, i) => emitted[i] = ls[i] \o <<LF>>

(* Mode B, no block counted: an UNLOAD that only its block's END closes,   *)
(* and the line after the block is copied.                                 *)
C12_Witness ==
    /\ AtEndB
    /\ total_toolchanges = 0
    /\ inl = << <<TOOLCHANGE_START>>, <<TOOLCHANGE_UNLOAD>>,
                <<TOOLCHANGE_END>>, <<G1>> >>
    /\ skip_block = FALSE
    /\ emitted[4] = <<G1, LF>>

---------------------------------------------------------------------------
(* C13.  Mode B: the END of a block beyond the count ends the skipping.    *)

(* The number of the line the rewriter read last (0: none yet). *)
last_read == Len(emitted)

(* Lines a+1..b hold no marker. *)
Plain(ls, a, b) == \A k \in (a + 1)..b : ~IsMarker(ls[k])

(* C13: in mode B an END line read with toolchanges > total_toolchanges    *)
(* writes nothing and leaves skip_block false, whatever skip_block was     *)
(* before it (an UNLOAD in the block with no WIPE after it included); the  *)
(* lines after that END, up to the next marker, are copied.                *)
C13_OverCountEndClearsSkip ==
    LET ls == inl
    IN /\ ( /\ last_read >= 1
            /\ IsEnd(ls[last_read])
            /\ toolchanges > total_toolchanges )
              => skip_block = FALSE /\ emitted[last_read] = <<>>
       /\ \A e \in 1..last_read :
             (IsEnd(ls[e]) /\ StartsTo(ls, e) > total_toolchanges) =>
                 \A k \in (e + 1)..last_read :
                     Plain(ls, e, k) => emitted[k] = ls[k] \o <<LF>>

(* No block counted; the block's UNLOAD has no WIPE, the line after it is  *)
(* dropped, the line after the block's END is copied.                      *)
C13_Witness ==
    /\ pc = "done"
    /\ total_toolchanges = 0
    /\ inl = << <<TOOLCHANGE_START>>, <<TOOLCHANGE_UNLOAD>>, <<G1>>,
                <<TOOLCHANGE_END>>, <<G1>> >>
    /\ emitted[3] = <<>>
    /\ emitted[5] = <<G1, LF>>
    /\ skip_block = FALSE

---------------------------------------------------------------------------
(* C14.  main: the scan, then one rewriter, then the rename, then the      *)
(* success line.                                                           *)

Rewriting == pc \in {"main.replace_unloads", "main.replace_toolchanges"}

(* C14: while the file is scanned nothing is written; when the temporary   *)
(* file is created the scan has read the whole file and the reader is back *)
(* at the first line; the rewriter runs with the scanned config, which no  *)
(* line it reads changes; it is replace_unloads if and only if the scanned *)
(* wipe_tower is true, replace_toolchanges otherwise, and never one after  *)
(* the other; the success line is printed only by the step after the       *)
(* rename, when the rewritten text is at the input's path.                 *)
C14_ScanThenOneRewriter ==
    /\ [](pc = "from_file" =>
            /\ writer = <<>>
            /\ ~fs[temp_path].exists
            /\ fs[input_path] = File(input))
    /\ [](pc = "tempfile" => config = read(input) /\ reader = input)
    /\ [](Rewriting =>
            /\ config = read(input)
            /\ total_toolchanges = config.total_toolchanges
            /\ (pc = "main.replace_unloads") <=> config.wipe_tower
            /\ lines(reader) = SubSeq(inl, last_read + 1, Len(inl)))
    /\ [][Rewriting => (config' = config /\ (Rewriting' => pc' = pc))]_vars
    /\ [][stdout' # stdout /\ stdout' = Append(stdout, "Success") =>
            /\ pc = "success"
            /\ fs[input_path] = File(Rewritten(input))
            /\ ~fs[temp_path].exists]_vars
    /\ []("Success" \in {stdout[i] : i \in DOMAIN stdout} =>
            fs[input_path] = File(Rewritten(input)))

(* A file that sets wipe_tower and the count and holds a WIPE line was     *)
(* rewritten by replace_unloads, and the success line printed.             *)
C14_Witness ==
    /\ pc = "exit"
    /\ stdout = <<"Success">>
    /\ config = [wipe_tower |-> TRUE, total_toolchanges |-> 1]
    /\ total_toolchanges = 1
    /\ emitted = << <<WIPE_TOWER_PREFIX, "1", LF>>,
                    <<TOTAL_TOOLCHANGES_PREFIX, "1", LF>>, <<M600, LF>> >>
    /\ fs[input_path] = File(Concat(emitted))

---------------------------------------------------------------------------
(* C15.  An input whose closing marker never comes.                        *)

(* C15: in mode A nothing is written for a START line with no later END    *)
(* line nor for any line after it; in mode B nothing is written for an     *)
(* UNLOAD line with no later WIPE line and no later END of a block beyond  *)
(* the count, nor for any line after it.  In both modes the rewriter goes  *)
(* on to the last line, one line a step (the lines read and the lines left *)
(* are the input's lines), can flush and return Ok once none is left, and  *)
(* when it has returned every line has been read and the output is what    *)
(* the lines wrote, in order.                                              *)
C15_UnclosedSkipsToEnd ==
    LET ls == inl
    IN /\ pc = "replace_toolchanges" =>
             \A s \in 1..last_read :
                 (IsStart(ls[s]) /\ ~LaterEnd(ls, s)) =>
                     \A k \in s..last_read : emitted[k] = <<>>
       /\ pc = "replace_unloads" =>
             \A u \in 1..last_read :
                 ( /\ IsUnload(ls[u])
                   /\ ~LaterWipe(ls, u)
                   /\ ~LaterOverCountEnd(ls, u, total_toolchanges) ) =>
                     \A k \in u..last_read : emitted[k] = <<>>
       /\ last_read + Len(lines(reader)) = Len(ls)
       /\ AtEndA => ENABLED ToolchangesFlush
       /\ AtEndB => ENABLED UnloadsFlush
       /\ pc = "done" =>
             /\ reader = <<>>
             /\ last_read = Len(ls)
             /\ writer = Concat(emitted)

(* Mode A has returned: the START has no END, the line before it is        *)
(* copied, the lines after it are not.                                     *)
C15_Witness ==
    /\ pc = "done"
    /\ inl = << <<M600>>, <<TOOLCHANGE_START>>, <<G1>>, <<G1>> >>
    /\ emitted = << <<M600, LF>>, <<>>, <<>>, <<>> >>
    /\ writer = <<M600, LF>>
    /\ skip_block = TRUE

---------------------------------------------------------------------------
(* C16.  What one scanned line may change.                                 *)

(* C16: a line read by SlicerConfig::read changes at most one field.  A    *)
(* `; total toolchanges = ` line leaves wipe_tower as it is; a             *)
(* `; wipe_tower = ` line leaves total_toolchanges as it is, sets          *)
(* wipe_tower to true when the rest of the line is exactly 1, to false     *)
(* when it is exactly 0, and leaves it as it is for any other rest; a line *)
(* with neither prefix leaves both as they are.                            *)
C16_OneFieldPerLine ==
    [][(pc = "read" /\ reader # <<>>) =>
        LET l == read_line(reader).line
        IN /\ IsTotalLine(l) => config'.wipe_tower = config.wipe_tower
           /\ IsWipeTowerLine(l) =>
                 /\ config'.total_toolchanges = config.total_toolchanges
                 /\ Tail(l) = <<"1">> => config'.wipe_tower = TRUE
                 /\ Tail(l) = <<"0">> => config'.wipe_tower = FALSE
                 /\ Tail(l) \notin {<<"1">>, <<"0">>} =>
                       config'.wipe_tower = config.wipe_tower
           /\ (~IsTotalLine(l) /\ ~IsWipeTowerLine(l)) => config' = config]_vars

(* wipe_tower was set by a `1` line and kept by the `10` line after it;    *)
(* the count line after them changed the count alone.                      *)
C16_Witness ==
    /\ pc = "done"
    /\ inl = << <<WIPE_TOWER_PREFIX, "1">>, <<WIPE_TOWER_PREFIX, "1", "0">>,
                <<TOTAL_TOOLCHANGES_PREFIX, "4">> >>
    /\ config = [wipe_tower |-> TRUE, total_toolchanges |-> 4]

---------------------------------------------------------------------------
(* C17.  Mode B's counter of START lines.                                  *)

(* C17: in mode B, after any number of lines read, toolchanges is the      *)
(* number of START lines among them, whether or not they were read while   *)
(* skipping, so it never goes down; a START line that is the               *)
(* (total_toolchanges+1)-th or a later one writes nothing and leaves       *)
(* skip_block true, and an END line read after such a START writes nothing *)
(* and leaves skip_block false.  (The counter is a u32; the input is taken *)
(* to hold fewer than 2^32 START lines.)                                   *)
C17_CounterCountsStarts ==
    LET ls == inl
    IN /\ toolchanges = StartsTo(ls, last_read)
       /\ \A i \in 1..last_read :
             StartsTo(ls, i) > total_toolchanges =>
                 /\ IsStart(ls[i]) =>
                       /\ emitted[i] = <<>>
                       /\ i = last_read => skip_block = TRUE
                 /\ IsEnd(ls[i]) =>
                       /\ emitted[i] = <<>>
                       /\ i = last_read => skip_block = FALSE

(* One block counted: the first START is read while an UNLOAD's skipping   *)
(* is on and is counted all the same, so the second START is beyond the    *)
(* count.                                                                  *)
C17_Witness ==
    /\ pc = "done"
    /\ total_toolchanges = 1
    /\ inl = << <<TOOLCHANGE_UNLOAD>>, <<TOOLCHANGE_START>>,
                <<TOOLCHANGE_START>>, <<TOOLCHANGE_END>>, <<G1>> >>
    /\ toolchanges = 2
    /\ emitted = << <<>>, <<>>, <<>>, <<>>, <<G1, LF>> >>

---------------------------------------------------------------------------
(* C18.  The shape of the output.                                          *)

(* C18: in both modes and for every input, each line read writes nothing,  *)
(* the line M600, or the line itself, each time one line ended by LF; the  *)
(* output is what the lines wrote, in the order of the lines, so it has as *)
(* many lines as lines wrote one; no output line of mode A starts with the *)
(* START or the END marker, none of mode B with the UNLOAD or the WIPE     *)
(* marker.  An output line is the text up to an LF.                        *)
C18_OutputShape ==
    LET ls == inl
        out == outl
    IN /\ last_read <= Len(ls)
       /\ \A i \in 1..last_read :
             emitted[i] \in {<<>>, <<M600, LF>>, ls[i] \o <<LF>>}
       /\ writer = Concat(emitted)
       /\ Len(out) = Cardinality({i \in 1..last_read : emitted[i] # <<>>})
       /\ pc = "replace_toolchanges" =>
             \A j \in DOMAIN out : ~IsStart(out[j]) /\ ~IsEnd(out[j])
       /\ pc = "replace_unloads" =>
             \A j \in DOMAIN out : ~IsUnload(out[j]) /\ ~IsWipe(out[j])

(* Mode B at the end of a block within the count: a copied line, the       *)
(* copied START, nothing for UNLOAD, M600 for WIPE, the copied END.        *)
C18_Witness ==
    /\ AtEndB
    /\ total_toolchanges = 2
    /\ inl = << <<G1>>, <<TOOLCHANGE_START>>, <<TOOLCHANGE_UNLOAD>>,
                <<TOOLCHANGE_WIPE>>, <<TOOLCHANGE_END>> >>
    /\ outl = << <<G1>>, <<TOOLCHANGE_START>>, <<M600>>, <<TOOLCHANGE_END>> >>

---------------------------------------------------------------------------
(* C19.  What writes M600.                                                 *)

---------------------------------------------------------------------------
(* C20.  The line terminator of the output.                                *)

(* Every CR of the bytes is the CR of a CR LF. *)
CrOnlyBeforeLf(bytes) ==
    \A i \in DOMAIN bytes :
        bytes[i] = CR => (i < Len(bytes) /\ bytes[i + 1] = LF)

(* C20: in both modes whatever a line writes, the line itself or M600,     *)
(* ends with LF and holds no other LF, whether the input line ended with   *)
(* LF, with CR LF, or with the end of the input; so the output is empty or *)
(* ends with LF, and when the input's only CRs are those of CR LF          *)
(* terminators the output holds no CR.                                     *)
C20_OneLfPerLine ==
    /\ \A i \in 1..last_read :
          emitted[i] # <<>> =>
              /\ emitted[i][Len(emitted[i])] = LF
              /\ \A k \in 1..(Len(emitted[i]) - 1) : emitted[i][k] # LF
    /\ writer = Concat(emitted)
    /\ writer = <<>> \/ writer[Len(writer)] = LF
    /\ CrOnlyBeforeLf(input) => \A k \in DOMAIN writer : writer[k] # CR

(* A line ended by CR LF, the START line of a counted block ended by LF    *)
(* and an unterminated last line: mode B copies the three, each ended by   *)
(* one LF.                                                                 *)
C20_Witness ==
    /\ AtEndB
    /\ total_toolchanges = 1
    /\ input = <<G1, CR, LF, TOOLCHANGE_START, G1, LF, G1>>
    /\ writer = <<G1, LF, TOOLCHANGE_START, G1, LF, G1, LF>>

=============================================================================
